---- MODULE Spec2Model ----
(***************************************************************************)
(* Model of src/app.py, the attendance / overtime reconciliation script:   *)
(* column resolution (find_column), value conversion (convert_to_hours,    *)
(* hours_to_hhmm, parse_dd_mm_yyyy, normalize_name), the join of           *)
(* process_overtime_data and the aggregation of create_summary_table.      *)
(*                                                                         *)
(* A text is a sequence of one-character strings, so that the conversions  *)
(* work on characters as the code's regular expressions and str methods    *)
(* do.  A cell is a record with a kind field k.  A number of hours is held  *)
(* as an integer number of seconds (hours = secs / 3600), and the          *)
(* arithmetic on it is exact; the durations of the input sets are ones for *)
(* which the double arithmetic of the code gives the same whole minutes.   *)
(*                                                                         *)
(* Spec runs the script on tables with the documented headers,             *)
(* SpecColumns on tables with other headers, SpecSummary on tables made    *)
(* for the summary, SpecDates on tables with missing keys, SpecAliases on  *)
(* tables with alias headers, and SpecFn calls the conversion functions    *)
(* directly.                                                               *)
(***************************************************************************)
EXTENDS Integers, Sequences, FiniteSets, TLC

VARIABLES
    show_process_area,   \* the "Show Processing Steps" checkbox
    uploaded_overtime,   \* the uploaded attendance table, or None
    uploaded_rekap,      \* the uploaded overtime (rekap) table, or None
    pc,                  \* position of the script run
    overtime_df,         \* first value returned by process_overtime_data
    rekap_df,            \* second value returned
    overtime_merged,     \* third value returned
    error,               \* the st.error raised by the run, or NoError
    summary_df,          \* the table returned by create_summary_table
    fn,                  \* the function a direct call applied
    arg,                 \* its argument
    ret                  \* its result

vars == <<show_process_area, uploaded_overtime, uploaded_rekap, pc, overtime_df,
          rekap_df, overtime_merged, error, summary_df, fn, arg, ret>>

-----------------------------------------------------------------------------
(* Characters and str methods *)

UpperChars == <<"A","B","C","D","E","F","G","H","I","J","K","L","M",
                "N","O","P","Q","R","S","T","U","V","W","X","Y","Z">>
LowerChars == <<"a","b","c","d","e","f","g","h","i","j","k","l","m",
                "n","o","p","q","r","s","t","u","v","w","x","y","z">>
DigitChars == <<"0","1","2","3","4","5","6","7","8","9">>

Range(s) == {s[i] : i \in 1..Len(s)}

\* the sequence f, evaluated once (TLC keeps [i \in 1..n |-> e] unevaluated)
Tuple(f) == f \o <<>>

IndexOf(c, s) == IF c \in Range(s) THEN CHOOSE i \in 1..Len(s) : s[i] = c ELSE 0

UpperSet == Range(UpperChars)
LowerSet == Range(LowerChars)
DigitSet == Range(DigitChars)
ToLower == [c \in UpperSet |-> LowerChars[IndexOf(c, UpperChars)]]
ToUpper == [c \in LowerSet |-> UpperChars[IndexOf(c, LowerChars)]]
DigitValue == [c \in DigitSet |-> IndexOf(c, DigitChars) - 1]

IsUpper(c) == c \in UpperSet
IsLower(c) == c \in LowerSet
IsDigit(c) == c \in DigitSet
IsSpace(c) == c \in {" ", "\t"}

LowerChar(c) == IF IsUpper(c) THEN ToLower[c] ELSE c
UpperChar(c) == IF IsLower(c) THEN ToUpper[c] ELSE c

\* str.lower()
StrLower(s) == Tuple([i \in 1..Len(s) |-> LowerChar(s[i])])

\* str.strip()
StrStrip(s) ==
    LET keep == {i \in 1..Len(s) : ~IsSpace(s[i])}
    IN  IF keep = {} THEN <<>>
        ELSE LET lo == CHOOSE i \in keep : \A j \in keep : i <= j
                 hi == CHOOSE i \in keep : \A j \in keep : j <= i
             IN  SubSeq(s, lo, hi)

IsAllDigits(s) == Len(s) > 0 /\ \A i \in 1..Len(s) : IsDigit(s[i])

\* x contains y as a substring (Python "y in x")
Contains(x, y) ==
    \E i \in 1..(Len(x) - Len(y) + 1) : SubSeq(x, i, i + Len(y) - 1) = y

\* the pieces of s between the occurrences of the character sep
SplitOn(s, sep) ==
    LET pos == {i \in 1..Len(s) : s[i] = sep}
        n == Cardinality(pos)
        \* the k-th occurrence; 0 and Len(s) + 1 stand before and after the text
        at(k) == IF k = 0 THEN 0
                 ELSE IF k = n + 1 THEN Len(s) + 1
                 ELSE CHOOSE i \in pos : Cardinality({j \in pos : j < i}) = k - 1
    IN  Tuple([k \in 1..(n + 1) |-> SubSeq(s, at(k - 1) + 1, at(k) - 1)])

\* int() of a run of decimal digits
RECURSIVE DigitsToInt(_)
DigitsToInt(s) ==
    IF Len(s) = 0 THEN 0
    ELSE 10 * DigitsToInt(SubSeq(s, 1, Len(s) - 1)) + DigitValue[s[Len(s)]]

\* f"{n:02d}" for n >= 0 ; for n < 0 the sign takes one of the two columns
RECURSIVE NatToDigits(_)
NatToDigits(n) ==
    IF n < 10 THEN <<DigitChars[n + 1]>>
    ELSE NatToDigits(n \div 10) \o <<DigitChars[(n % 10) + 1]>>

Format02d(n) ==
    IF n < 0 THEN <<"-">> \o NatToDigits(-n)
    ELSE IF n < 10 THEN <<"0">> \o NatToDigits(n)
    ELSE NatToDigits(n)

-----------------------------------------------------------------------------
(* Cells.  NaN is the missing cell of pandas (pd.isna). *)

NaN == [k |-> "nan"]
Text(s) == [k |-> "text", s |-> s]
\* a float cell holding secs / 3600 hours
Num(secs) == [k |-> "num", secs |-> secs]
\* a datetime.timedelta cell
TimeDelta(secs) == [k |-> "timedelta", secs |-> secs]
\* a datetime.time cell
TimeOfDay(h, m, s) == [k |-> "time", h |-> h, m |-> m, s |-> s]

IsNa(c) == c.k = "nan"

-----------------------------------------------------------------------------
(* normalize_column_names / find_column *)

\* re.sub(r'[^a-zA-Z0-9]', '', str(col)).lower()
NormalizeHeader(col) ==
    StrLower(SelectSeq(col, LAMBDA c : IsUpper(c) \/ IsLower(c) \/ IsDigit(c)))

\* df.rename(columns=...) over every header; the rows are kept
normalize_column_names(df) ==
    IF Len(df.rows) = 0 \/ Len(df.cols) = 0 THEN df
    ELSE [df EXCEPT !.cols = Tuple([i \in 1..Len(df.cols) |-> NormalizeHeader(df.cols[i])])]

\* Python's None
None == [k |-> "none"]

\* a header that holds one of the normalized aliases as a substring
HeaderMatchesSubstring(col, names) ==
    \E i \in 1..Len(names) : Contains(col, names[i])

\* "col in possible_names": equality with one of the normalized aliases
HeaderMatches(col, names) ==
    \E i \in 1..Len(names) : col = names[i]

\* possible_names is a sequence of alias texts; the result is the normalized
\* header of the first matching column, as a text cell, or None (None).
find_column(df, possible_names) ==
    IF Len(df.rows) = 0 \/ Len(df.cols) = 0 THEN None
    ELSE LET normalized_df == normalize_column_names(df)
             names == Tuple([i \in 1..Len(possible_names) |-> NormalizeHeader(possible_names[i])])
             hits == {i \in 1..Len(normalized_df.cols) :
                         HeaderMatches(normalized_df.cols[i], names)}
         IN  IF hits = {} THEN None
             ELSE Text(normalized_df.cols[CHOOSE i \in hits : \A j \in hits : i <= j])

\* df[col]: the position of the column called col (the first, the tables of
\* the model having no two headers with the same normalized form)
ColIndex(df, col) ==
    CHOOSE i \in 1..Len(df.cols) :
        df.cols[i] = col /\ \A j \in 1..(i - 1) : df.cols[j] # col


-----------------------------------------------------------------------------
(* convert_to_hours *)

\* A result of convert_to_hours: the hours returned (as seconds) and the
\* return statement that produced it, or the exception that left the function.
Hours(secs, via) == [raised |-> "none", secs |-> secs, via |-> via]
Raised(exc) == [raised |-> exc, secs |-> 0, via |-> "raise"]

StripZeros(ds) ==
    LET nz == {i \in 1..Len(ds) : ds[i] # "0"}
    IN  IF nz = {} THEN <<>>
        ELSE SubSeq(ds, CHOOSE i \in nz : \A j \in nz : i <= j, Len(ds))

\* The largest double is below 1.8e308: an int of more than 312 digits
\* cannot be converted to float, nor can its quotient by 60 or by 3600.
ExceedsDouble(ds) == Len(StripZeros(ds)) > 312

\* re.match(r'^(\d+):(\d+):?(\d+)?$', s): the groups, or <<>> for no match.
\* group 3 is <<>> when it did not take part in the match.
ClockMatch(s) ==
    LET p == SplitOn(s, ":")
    IN  IF Len(p) = 2 /\ IsAllDigits(p[1]) /\ IsAllDigits(p[2])
            THEN <<p[1], p[2], <<>> >>
        ELSE IF Len(p) = 3 /\ IsAllDigits(p[1]) /\ IsAllDigits(p[2])
                /\ (IsAllDigits(p[3]) \/ p[3] = <<>>)
            THEN <<p[1], p[2], p[3]>>
        ELSE <<>>

\* pd.to_timedelta(s) for the texts "<n> day" and "<n> days"; every other
\* text that holds "day" is taken to be rejected with ValueError.
DayUnitSeconds(s) ==
    LET p == SplitOn(s, " ")
    IN  IF Len(p) = 2 /\ IsAllDigits(p[1])
           /\ p[2] \in {<<"d","a","y">>, <<"d","a","y","s">>}
        THEN 86400 * DigitsToInt(p[1])
        ELSE -1

\* float(s) for a plain decimal literal with at most two fraction digits:
\* <<TRUE, seconds>>, or <<FALSE, 0>> for ValueError.
FloatLiteral(s) ==
    LET neg  == Len(s) > 0 /\ s[1] = "-"
        body == IF Len(s) > 0 /\ s[1] \in {"-", "+"} THEN Tail(s) ELSE s
        p    == SplitOn(body, ".")
        ip   == p[1]
        fp   == IF Len(p) = 2 THEN p[2] ELSE <<>>
        okp(x) == x = <<>> \/ IsAllDigits(x)
        mag  == 3600 * DigitsToInt(ip)
                + (IF Len(fp) = 1 THEN 360 * DigitsToInt(fp)
                   ELSE IF Len(fp) = 2 THEN 36 * DigitsToInt(fp) ELSE 0)
    IN  IF Len(p) <= 2 /\ okp(ip) /\ okp(fp) /\ Len(fp) <= 2
           /\ (ip # <<>> \/ fp # <<>>)
        THEN <<TRUE, IF neg THEN -mag ELSE mag>>
        ELSE <<FALSE, 0>>

\* hours + minutes / 60 + seconds / 3600 over the groups of the match
ClockHours(g) ==
    IF ExceedsDouble(g[1]) \/ ExceedsDouble(g[2]) \/ ExceedsDouble(g[3])
    THEN Raised("OverflowError")
    ELSE Hours(3600 * DigitsToInt(g[1]) + 60 * DigitsToInt(g[2]) + DigitsToInt(g[3]), "clock")

convert_to_hours(time_value) ==
    IF IsNa(time_value) THEN Hours(0, "isna")
    ELSE IF time_value.k = "num" THEN Hours(time_value.secs, "number")
    ELSE IF time_value.k = "timedelta" THEN Hours(time_value.secs, "timedelta")
    ELSE IF time_value.k = "time"
        THEN Hours(3600 * time_value.h + 60 * time_value.m + time_value.s, "time")
    ELSE LET time_str == StrStrip(time_value.s)
             td == DayUnitSeconds(time_str)
             match == ClockMatch(time_str)
             lit == FloatLiteral(time_str)
         IN  IF Contains(time_str, <<"d","a","y">>)
                 THEN IF td >= 0 THEN Hours(td, "dayunit") ELSE Hours(0, "except")
             ELSE IF match # <<>> THEN ClockHours(match)
             ELSE IF lit[1] THEN Hours(lit[2], "float")
             ELSE Hours(0, "except")

-----------------------------------------------------------------------------
(* hours_to_hhmm *)

\* the nearest whole minute in place of the truncation
IntMinutesRounded(secs) == (secs + 30) \div 60

\* int(hours * 60) for hours = secs / 3600: truncation toward zero
IntMinutes(secs) == IF secs >= 0 THEN secs \div 60 ELSE -((-secs) \div 60)

\* hours is a Num cell or NaN; the result is the text f"{h:02d}:{m:02d}"
hours_to_hhmm(hours) ==
    IF IsNa(hours) \/ hours.secs = 0 THEN <<"0","0",":","0","0">>
    ELSE LET total_minutes == IntMinutes(hours.secs)
             h == total_minutes \div 60
             m == total_minutes % 60
         IN  Format02d(h) \o <<":">> \o Format02d(m)

-----------------------------------------------------------------------------
(* parse_dd_mm_yyyy and the date normalization of process_overtime_data *)

NaT == [k |-> "nat"]
Date(y, m, d) == [k |-> "date", y |-> y, m |-> m, d |-> d]

IsLeap(y) == (y % 4 = 0 /\ y % 100 # 0) \/ y % 400 = 0

DaysIn(y, m) ==
    IF m = 2 THEN (IF IsLeap(y) THEN 29 ELSE 28)
    ELSE IF m \in {4, 6, 9, 11} THEN 30 ELSE 31

\* datetime.strptime over three digit runs: the date, or NaT for ValueError
MakeDate(y, m, d) ==
    LET yy == DigitsToInt(y)
        mm == DigitsToInt(m)
        dd == DigitsToInt(d)
    IN  IF yy >= 1 /\ mm \in 1..12 /\ dd >= 1 /\ dd <= DaysIn(yy, mm)
        THEN Date(yy, mm, dd) ELSE NaT

\* ^\d{1,2}<sep>\d{1,2}<sep>\d{4}$ over p, the pieces of the text split on <sep>
MatchesDMY(p) ==
    /\ Len(p) = 3
    /\ IsAllDigits(p[1]) /\ Len(p[1]) <= 2
    /\ IsAllDigits(p[2]) /\ Len(p[2]) <= 2
    /\ IsAllDigits(p[3]) /\ Len(p[3]) = 4

\* pd.to_datetime(s, errors='coerce') for the ISO text YYYY-MM-DD, given as
\* its pieces p split on "-"; every other text that reaches it in the model
\* (words, empty text, impossible dates) is coerced to NaT.
GeneralDateParse(p) ==
    IF Len(p) = 3 /\ IsAllDigits(p[1]) /\ Len(p[1]) = 4
       /\ IsAllDigits(p[2]) /\ Len(p[2]) = 2 /\ IsAllDigits(p[3]) /\ Len(p[3]) = 2
    THEN MakeDate(p[1], p[2], p[3]) ELSE NaT

\* date_str is a text cell or NaN (the date cells of the model are texts)
parse_dd_mm_yyyy(date_str) ==
    IF IsNa(date_str) THEN NaT
    ELSE LET s == StrStrip(date_str.s)
             ps == SplitOn(s, "/")
             pd == SplitOn(s, "-")
         IN  IF MatchesDMY(ps) THEN MakeDate(ps[3], ps[2], ps[1])
             ELSE IF MatchesDMY(pd) THEN MakeDate(pd[3], pd[2], pd[1])
             ELSE GeneralDateParse(pd)

\* pd.to_datetime(column, errors='coerce').dt.strftime('%Y-%m-%d') on one
\* parsed value: the text YYYY-MM-DD (years of four digits), NaN for NaT
StrftimeYmd(d) ==
    IF d.k = "nat" THEN NaN
    ELSE Text(NatToDigits(d.y) \o <<"-">> \o Format02d(d.m) \o <<"-">> \o Format02d(d.d))

-----------------------------------------------------------------------------
(* normalize_name (nested in process_overtime_data) *)

\* str(name).strip().lower(), then re.sub(r'[^a-z0-9\s]', '', .)
normalize_name(name) ==
    IF IsNa(name) THEN Text(<<>>)
    ELSE Text(SelectSeq(StrLower(StrStrip(name.s)),
                        LAMBDA c : IsLower(c) \/ IsDigit(c) \/ IsSpace(c)))

-----------------------------------------------------------------------------
(* Tables (DataFrames): cols is the sequence of headers, rows the sequence  *)
(* of rows, each row a sequence of cells in column order.                   *)

DataFrame(cols, rows) == [cols |-> cols, rows |-> rows]

Cell(df, r, col) == df.rows[r][ColIndex(df, col)]

\* df[col] = vals, for a column of the table
SetCol(df, col, vals) ==
    LET i == ColIndex(df, col)
    IN  [df EXCEPT !.rows = Tuple([r \in 1..Len(df.rows) |->
            [df.rows[r] EXCEPT ![i] = vals[r]]])]

\* df[col] = vals, for a column the table does not have yet
AddCol(df, col, vals) ==
    [cols |-> Append(df.cols, col),
     rows |-> Tuple([r \in 1..Len(df.rows) |-> Append(df.rows[r], vals[r])])]

-----------------------------------------------------------------------------
(* process_overtime_data *)

EmployeeAliases == << <<"E","m","p","l","o","y","e","e","N","a","m","e">>, <<"E","m","p","l","o","y","e","e">>, <<"N","a","m","a","K","a","r","y","a","w","a","n">>, <<"N","a","m","e">>, <<"N","a","m","a">> >>
DateAliases == << <<"D","a","t","e">>, <<"T","a","n","g","g","a","l">>, <<"T","g","l">> >>
\* the duration aliases without 'LamaWaktu'
DurationAliasesShort == << <<"D","u","r","a","t","i","o","n">>, <<"D","u","r","a","s","i">> >>
DurationAliases == << <<"D","u","r","a","t","i","o","n">>, <<"D","u","r","a","s","i">>, <<"L","a","m","a","W","a","k","t","u">> >>
JobAliases == << <<"J","o","b","P","o","s","i","t","i","o","n">>, <<"P","o","s","i","t","i","o","n">>, <<"P","o","s","i","s","i">>, <<"J","a","b","a","t","a","n">> >>
ShiftAliases == << <<"S","h","i","f","t">>, <<"S","h","i","f","t","K","e","r","j","a">>, <<"J","a","d","w","a","l">> >>
WtNormalAliases == << <<"W","T","N","o","r","m","a","l">>, <<"W","T","/","N","o","r","m","a","l">>, <<"N","o","r","m","a","l","H","o","u","r","s">>, <<"J","a","m","N","o","r","m","a","l">> >>

COL_DURATION_HOURS == <<"d","u","r","a","t","i","o","n","_","h","o","u","r","s">>
COL_DURATION_HHMM == <<"d","u","r","a","t","i","o","n","_","h","h","m","m">>
COL_RKP_PIC == <<"R","K","P","_","P","I","C">>
COL_RKP_PIC_HOURS == <<"R","K","P","_","P","I","C","_","H","O","U","R","S">>

ZeroClock == Text(<<"0","0",":","0","0">>)

\* the st.error of a missing column: the field and the file it names
NoError == [field |-> "", file |-> "", exc |-> ""]
MissingColumn(field, file) == [field |-> field, file |-> file, exc |-> ""]
\* the st.error of the main script's except clause (line 613)
Exception(exc) == [field |-> "", file |-> "", exc |-> exc]

\* what a call leaves: the three values returned and the error shown, or the
\* exception that left the call
Returned(odf, rdf, merged, err) ==
    [overtime_df |-> odf, rekap_df |-> rdf, overtime_merged |-> merged,
     error |-> err, raised |-> "none"]
Threw(exc) ==
    [overtime_df |-> None, rekap_df |-> None, overtime_merged |-> None,
     error |-> Exception(exc), raised |-> exc]

\* the rows of rekap_df_mapped.loc[(employee, date)], in source order
LocRows(rdf, emp_col_rekap, date_col_rekap, employee, date) ==
    {j \in 1..Len(rdf.rows) :
        /\ Cell(rdf, j, emp_col_rekap) = employee
        /\ Cell(rdf, j, date_col_rekap) = date}

\* the last of the rows that have the key
ILocLast(rows) == CHOOSE j \in rows : \A i \in rows : i <= j

\* match_row, or match_row.iloc[0] when several rows have the key
ILoc0(rows) == CHOOSE j \in rows : \A i \in rows : j <= i

\* the pair (RKP_PIC, RKP_PIC_HOURS) of attendance row r
get_rkp_pic(odf, rdf, r, emp_col_overtime, date_col_overtime, emp_col_rekap, date_col_rekap) ==
    LET employee == Cell(odf, r, emp_col_overtime)
        date == Cell(odf, r, date_col_overtime)
        hit == LocRows(rdf, emp_col_rekap, date_col_rekap, employee, date)
    IN  IF IsNa(employee) \/ IsNa(date) THEN <<ZeroClock, Num(0)>>
        ELSE IF hit = {} THEN <<ZeroClock, Num(0)>>
        ELSE <<Cell(rdf, ILoc0(hit), COL_DURATION_HHMM),
               Cell(rdf, ILoc0(hit), COL_DURATION_HOURS)>>

\* a left merge on the key: one row for every pair of an attendance row and
\* an overtime row with its key, and one for an attendance row without any
RECURSIVE MergeRkpPicFrom(_, _, _, _, _, _, _)
MergeRkpPicFrom(odf, rdf, r, emp_col_overtime, date_col_overtime, emp_col_rekap, date_col_rekap) ==
    IF r > Len(odf.rows) THEN <<>>
    ELSE LET employee == Cell(odf, r, emp_col_overtime)
             date == Cell(odf, r, date_col_overtime)
             hit == LocRows(rdf, emp_col_rekap, date_col_rekap, employee, date)
             here == IF IsNa(employee) \/ IsNa(date) \/ hit = {}
                     THEN << odf.rows[r] \o <<ZeroClock, Num(0)>> >>
                     ELSE SelectSeq(
                            Tuple([j \in 1..Len(rdf.rows) |->
                                IF j \in hit
                                THEN odf.rows[r] \o <<Cell(rdf, j, COL_DURATION_HHMM),
                                                      Cell(rdf, j, COL_DURATION_HOURS)>>
                                ELSE <<>>]),
                            LAMBDA x : x # <<>>)
         IN  here \o MergeRkpPicFrom(odf, rdf, r + 1, emp_col_overtime, date_col_overtime,
                                     emp_col_rekap, date_col_rekap)

MergeRkpPic(odf, rdf, emp_col_overtime, date_col_overtime, emp_col_rekap, date_col_rekap) ==
    [cols |-> odf.cols \o <<COL_RKP_PIC, COL_RKP_PIC_HOURS>>,
     rows |-> MergeRkpPicFrom(odf, rdf, 1, emp_col_overtime, date_col_overtime,
                              emp_col_rekap, date_col_rekap)]

\* lines 351-373: overtime_df.apply(get_rkp_pic, axis=1, result_type='expand')
\* and the assignment of its two columns to RKP_PIC and RKP_PIC_HOURS
ApplyRkpPic(odf, rdf, emp_col_overtime, date_col_overtime, emp_col_rekap, date_col_rekap) ==
    LET results == Tuple([r \in 1..Len(odf.rows) |->
                       get_rkp_pic(odf, rdf, r, emp_col_overtime, date_col_overtime,
                                   emp_col_rekap, date_col_rekap)])
    IN  AddCol(AddCol(odf, COL_RKP_PIC, Tuple([r \in 1..Len(odf.rows) |-> results[r][1]])),
               COL_RKP_PIC_HOURS, Tuple([r \in 1..Len(odf.rows) |-> results[r][2]]))

\* lines 307-346: the conversions made inside the process_container blocks
NormalizeForMatching(df, emp_col, date_col) ==
    LET n == Len(df.rows)
        parsed == SetCol(df, date_col,
                         Tuple([r \in 1..n |-> parse_dd_mm_yyyy(Cell(df, r, date_col))]))
        named == SetCol(parsed, emp_col,
                        Tuple([r \in 1..n |-> normalize_name(Cell(parsed, r, emp_col))]))
    IN  SetCol(named, date_col,
               Tuple([r \in 1..n |-> StrftimeYmd(Cell(named, r, date_col))]))

\* lines 307-373 and 412, once the five columns are resolved
MergeTables(odf0, rdf0, process_container, emp_col_overtime, emp_col_rekap, date_col_overtime, date_col_rekap, duration_col) ==
    LET odf1 == IF process_container
                THEN NormalizeForMatching(odf0, emp_col_overtime, date_col_overtime)
                ELSE odf0
        rdf1 == IF process_container
                THEN NormalizeForMatching(rdf0, emp_col_rekap, date_col_rekap)
                ELSE rdf0
        conv == Tuple([j \in 1..Len(rdf1.rows) |-> convert_to_hours(Cell(rdf1, j, duration_col))])
        hours == Tuple([j \in 1..Len(rdf1.rows) |-> Num(conv[j].secs)])
        hhmm == Tuple([j \in 1..Len(rdf1.rows) |-> Text(hours_to_hhmm(hours[j]))])
        rdf2 == AddCol(AddCol(rdf1, COL_DURATION_HOURS, hours), COL_DURATION_HHMM, hhmm)
        odf2 == ApplyRkpPic(odf1, rdf2, emp_col_overtime, date_col_overtime,
                            emp_col_rekap, date_col_rekap)
    IN  IF \E j \in 1..Len(rdf1.rows) : conv[j].raised # "none"
        THEN Threw("OverflowError")
        ELSE Returned(odf2, rdf2, odf2, NoError)

\* lines 274-290 with the Date errors naming the employee column
MissingRequiredMisnamed(emp_col_overtime, emp_col_rekap, date_col_overtime, date_col_rekap, duration_col) ==
    IF emp_col_overtime = None THEN MissingColumn("Employee Name", "overtime")
    ELSE IF emp_col_rekap = None THEN MissingColumn("Employee Name", "rekap")
    ELSE IF date_col_overtime = None THEN MissingColumn("Employee Name", "overtime")
    ELSE IF date_col_rekap = None THEN MissingColumn("Employee Name", "rekap")
    ELSE IF duration_col = None THEN MissingColumn("Duration", "rekap")
    ELSE NoError

\* lines 274-290: the error of the first required column that is None
MissingRequired(emp_col_overtime, emp_col_rekap, date_col_overtime, date_col_rekap, duration_col) ==
    IF emp_col_overtime = None THEN MissingColumn("Employee Name", "overtime")
    ELSE IF emp_col_rekap = None THEN MissingColumn("Employee Name", "rekap")
    ELSE IF date_col_overtime = None THEN MissingColumn("Date", "overtime")
    ELSE IF date_col_rekap = None THEN MissingColumn("Date", "rekap")
    ELSE IF duration_col = None THEN MissingColumn("Duration", "rekap")
    ELSE NoError

\* overtime_file is the attendance table, rekap_file the overtime table, both
\* as read_excel_file returned them; process_container is the checkbox.
process_overtime_data(overtime_file, rekap_file, process_container) ==
    LET odf0 == normalize_column_names(overtime_file)
        rdf0 == normalize_column_names(rekap_file)
        emp_col_overtime == find_column(odf0, EmployeeAliases)
        emp_col_rekap == find_column(rdf0, EmployeeAliases)
        date_col_overtime == find_column(odf0, DateAliases)
        date_col_rekap == find_column(rdf0, DateAliases)
        duration_col == find_column(rdf0, DurationAliases)
        missing == MissingRequired(emp_col_overtime, emp_col_rekap, date_col_overtime,
                                   date_col_rekap, duration_col)
    IN  IF missing # NoError
            THEN Returned(None, None, None, missing)
        ELSE MergeTables(odf0, rdf0, process_container, emp_col_overtime.s,
                         emp_col_rekap.s, date_col_overtime.s, date_col_rekap.s,
                         duration_col.s)


-----------------------------------------------------------------------------
(* create_summary_table *)

\* Series.unique(): the distinct cells in order of first appearance
RECURSIVE Unique(_)
Unique(s) ==
    IF Len(s) = 0 THEN <<>>
    ELSE LET u == Unique(SubSeq(s, 1, Len(s) - 1))
         IN  IF s[Len(s)] \in Range(u) THEN u ELSE Append(u, s[Len(s)])

\* str.title()
StrTitle(s) ==
    Tuple([i \in 1..Len(s) |->
        IF i = 1 \/ ~(IsLower(s[i - 1]) \/ IsUpper(s[i - 1]))
        THEN UpperChar(s[i]) ELSE LowerChar(s[i])])

shift_exclusions ==
    { <<"o","f","f">>, <<"l","i","b","u","r">>, <<"l","e","a","v","e">>, <<"c","u","t","i">>, <<"h","a","r","i"," ","l","i","b","u","r">>, <<"i","s","t","i","r","a","h","a","t">>, <<"k","o","s","o","n","g">>, <<>> }

\* notna() & ~astype(str).str.lower().isin(shift_exclusions)
\*         & (astype(str).str.strip() != '')
IsWorkShift(c) ==
    /\ ~IsNa(c)
    /\ StrLower(c.s) \notin shift_exclusions
    /\ StrStrip(c.s) # <<>>

RECURSIVE SumSeq(_)
SumSeq(s) == IF Len(s) = 0 THEN 0 ELSE s[1] + SumSeq(Tail(s))

\* the rows of the table whose employee cell equals employee, in order
EmployeeRows(df, emp_col, employee) ==
    SelectSeq([r \in 1..Len(df.rows) |-> r],
              LAMBDA r : Cell(df, r, emp_col) = employee)

\* the hours one row adds to rkp_pic_total_hours (lines 220-223)
RkpRowHours(df, r) ==
    IF Cell(df, r, COL_RKP_PIC) # ZeroClock
    THEN convert_to_hours(Cell(df, r, COL_RKP_PIC)).secs
    ELSE 0

\* the summary row of one employee, before the 'No' column is inserted
SummaryRow(df, employee, emp_col, job_col, shift_col, wt_normal_col) ==
    LET employee_data == EmployeeRows(df, emp_col, employee)
        n == Len(employee_data)
        work_days ==
            IF shift_col # None
            THEN Cardinality({i \in 1..n : IsWorkShift(Cell(df, employee_data[i], shift_col.s))})
            ELSE n
        wt_normal_hours ==
            IF wt_normal_col # None
            THEN SumSeq([i \in 1..n |->
                    convert_to_hours(Cell(df, employee_data[i], wt_normal_col.s)).secs])
            ELSE 0
        rkp_pic_total_hours == SumSeq([i \in 1..n |-> RkpRowHours(df, employee_data[i])])
        job_positions ==
            IF job_col # None
            THEN SelectSeq([i \in 1..n |-> Cell(df, employee_data[i], job_col.s)],
                           LAMBDA c : ~IsNa(c))
            ELSE <<>>
    IN  [EmployeeName |-> StrTitle(employee.s),
         JobPosition |-> IF Len(job_positions) > 0 THEN job_positions[1] ELSE Text(<<"N","/","A">>),
         DWork |-> work_days,
         WTNormal |-> hours_to_hhmm(Num(wt_normal_hours)),
         RKPPIC |-> hours_to_hhmm(Num(rkp_pic_total_hours))]

\* the summary table: a sequence of rows, <<>> for the empty DataFrame
create_summary_table(merged) ==
    IF merged = None THEN <<>>
    ELSE IF Len(merged.rows) = 0 \/ Len(merged.cols) = 0 THEN <<>>
    ELSE LET emp_col == find_column(merged, EmployeeAliases)
             job_col == find_column(merged, JobAliases)
             shift_col == find_column(merged, ShiftAliases)
             wt_normal_col == find_column(merged, WtNormalAliases)
         IN  IF emp_col = None THEN <<>>
             ELSE LET employees ==
                          SelectSeq(Unique([r \in 1..Len(merged.rows) |->
                                               Cell(merged, r, emp_col.s)]),
                                    LAMBDA e : ~IsNa(e))
                  IN  Tuple([i \in 1..Len(employees) |->
                          [No |-> i] @@ SummaryRow(merged, employees[i], emp_col.s, job_col,
                                                   shift_col, wt_normal_col)])


-----------------------------------------------------------------------------
(* Uploaded tables *)

MaxAttRows == 2
MaxRekRows == 3

SeqsUpTo(S, n) == UNION {[1..k -> S] : k \in 0..n}

AttendanceCols == << <<"E","m","p","l","o","y","e","e"," ","N","a","m","e">>, <<"D","a","t","e">>, <<"S","h","i","f","t">> >>
RekapCols == << <<"E","m","p","l","o","y","e","e"," ","N","a","m","e">>, <<"D","a","t","e">>, <<"D","u","r","a","t","i","o","n">> >>

JohnDoe == Text(<<"J","o","h","n"," ","D","o","e">>)
JohnDoeLower == Text(<<"j","o","h","n"," ","d","o","e">>)
Jane == Text(<<"J","a","n","e">>)
Bob == Text(<<"B","o","b">>)
March1 == Text(<<"0","1","/","0","3","/","2","0","2","4">>)
March1Dash == Text(<<"1","-","3","-","2","0","2","4">>)
March2 == Text(<<"0","2","/","0","3","/","2","0","2","4">>)

\* a clock text whose minutes have 400 digits
HugeClock == Tuple(<<"1", ":">> \o [i \in 1..400 |-> "9"])

\* attendance rows (employee, date, shift)
JoinAttendanceRows ==
    { <<JohnDoe, March1, Text(<<"P","a","g","i">>)>>,
      <<JohnDoe, March2, Text(<<"O","f","f">>)>>,
      <<Text(<<" ","J","O","H","N"," ","D","O","E",".">>), March1Dash, Text(<<"M","a","l","a","m">>)>> }

\* overtime rows (employee, date, duration)
JoinRekapRows ==
    { <<JohnDoeLower, March1, Text(<<"0","2",":","3","0">>)>>,
      <<JohnDoe, March1, Num(3600)>>,
      <<JohnDoe, March1Dash, TimeDelta(7200)>>,
      <<Bob, March1, Num(3600)>> }

JoinInputs ==
    { [att |-> DataFrame(AttendanceCols, a), rek |-> DataFrame(RekapCols, r)] :
        a \in SeqsUpTo(JoinAttendanceRows, MaxAttRows),
        r \in SeqsUpTo(JoinRekapRows, MaxRekRows) }

\* uploads whose overtime table ends with a duration that overflows a float
OverflowInputs ==
    { [att |-> DataFrame(AttendanceCols, <<a>>),
       rek |-> DataFrame(RekapCols, <<r, <<JohnDoe, March2, Text(HugeClock)>> >>)] :
        a \in JoinAttendanceRows, r \in JoinRekapRows }

-----------------------------------------------------------------------------
(* The script run: upload, toggle, process_overtime_data, create_summary_table *)

NoCall == [k |-> "none"]

InitRun ==
    /\ show_process_area = TRUE
    /\ uploaded_overtime = None
    /\ uploaded_rekap = None
    /\ pc = "idle"
    /\ overtime_df = None
    /\ rekap_df = None
    /\ overtime_merged = None
    /\ error = NoError
    /\ summary_df = <<>>

Init ==
    /\ InitRun
    /\ fn = "none"
    /\ arg = NoCall
    /\ ret = NoCall

\* both file_uploader widgets hold a file: the script runs again (line 430)
UploadFiles(inputs) ==
    /\ pc = "idle"
    /\ \E f \in inputs :
        /\ uploaded_overtime' = f.att
        /\ uploaded_rekap' = f.rek
    /\ pc' = "run"
    /\ UNCHANGED <<show_process_area, overtime_df, rekap_df, overtime_merged, error,
                   summary_df, fn, arg, ret>>

\* the checkbox of line 94 is clicked: the script runs again from the top
ToggleShowProcessingSteps ==
    /\ show_process_area' = ~show_process_area
    /\ pc' = IF uploaded_overtime # None /\ uploaded_rekap # None THEN "run" ELSE "idle"
    /\ overtime_df' = None
    /\ rekap_df' = None
    /\ overtime_merged' = None
    /\ error' = NoError
    /\ summary_df' = <<>>
    /\ UNCHANGED <<uploaded_overtime, uploaded_rekap, fn, arg, ret>>

\* lines 431-438: the call, and the except clause of line 612
ProcessOvertimeData ==
    /\ pc = "run"
    /\ \E res \in {process_overtime_data(uploaded_overtime, uploaded_rekap, show_process_area)} :
           /\ overtime_df' = res.overtime_df
           /\ rekap_df' = res.rekap_df
           /\ overtime_merged' = res.overtime_merged
           /\ error' = res.error
           /\ pc' = IF res.raised # "none" THEN "raised"
                    ELSE IF res.overtime_merged = None THEN "failed"
                    ELSE "processed"
    /\ UNCHANGED <<show_process_area, uploaded_overtime, uploaded_rekap, summary_df,
                   fn, arg, ret>>

\* line 571, reached only when overtime_merged is not None (line 438)
CreateSummaryTable ==
    /\ pc = "processed"
    /\ overtime_merged # None
    /\ summary_df' = create_summary_table(overtime_merged)
    /\ pc' = "done"
    /\ UNCHANGED <<show_process_area, uploaded_overtime, uploaded_rekap, overtime_df,
                   rekap_df, overtime_merged, error, fn, arg, ret>>

Next ==
    \/ UploadFiles(JoinInputs \cup OverflowInputs)
    \/ ToggleShowProcessingSteps
    \/ ProcessOvertimeData
    \/ CreateSummaryTable

Spec == Init /\ [][Next]_vars


-----------------------------------------------------------------------------
(* Uploads with other headers: resolved and unresolved columns *)

MaxColRows == 1

AttendanceHeaders ==
    { AttendanceCols,
      << <<"e","m","p","l","o","y","e","e","_","n","a","m","e">>, <<"T","a","n","g","g","a","l">>, <<"J","a","d","w","a","l">> >>,
      << <<"N","A","M","A">>, <<"T","G","L">>, <<"S","h","i","f","t">> >>,
      << <<"S","t","a","f","f">>, <<"D","a","t","e">>, <<"S","h","i","f","t">> >>,
      << <<"E","m","p","l","o","y","e","e"," ","N","a","m","e">>, <<"U","p","d","a","t","e">>, <<"S","h","i","f","t">> >>,
      << <<"I","D">>, <<"N","a","m","e">>, <<"T","g","l">> >> }

RekapHeaders ==
    { RekapCols,
      << <<"N","a","m","a"," ","K","a","r","y","a","w","a","n">>, <<"T","g","l">>, <<"D","u","r","a","s","i">> >>,
      << <<"N","a","m","e">>, <<"D","A","T","E">>, <<"L","a","m","a"," ","W","a","k","t","u">> >>,
      << <<"E","m","p"," ","N","o">>, <<"D","a","t","e">>, <<"D","u","r","a","t","i","o","n">> >>,
      << <<"E","m","p","l","o","y","e","e">>, <<"D","a","t","e","s"," ","o","f"," ","w","o","r","k">>, <<"D","u","r","a","t","i","o","n">> >>,
      << <<"E","m","p","l","o","y","e","e"," ","N","a","m","e">>, <<"D","a","t","e">>, <<"O","v","e","r","t","i","m","e">> >> }

ColumnInputs ==
    { [att |-> DataFrame(ah, a), rek |-> DataFrame(rh, r)] :
        ah \in AttendanceHeaders, rh \in RekapHeaders,
        a \in SeqsUpTo({<<JohnDoe, March1, Text(<<"P","a","g","i">>)>>}, MaxColRows),
        r \in SeqsUpTo({<<JohnDoe, March1, Text(<<"0","2",":","3","0">>)>>}, MaxColRows) }

NextColumns ==
    \/ UploadFiles(ColumnInputs)
    \/ ToggleShowProcessingSteps
    \/ ProcessOvertimeData
    \/ CreateSummaryTable

SpecColumns == Init /\ [][NextColumns]_vars

-----------------------------------------------------------------------------
(* Uploads for the summary: shifts, and durations of less than a minute *)

MaxSumAttRows == 3
MaxSumRekRows == 2

SummaryAttendanceRows ==
    { <<JohnDoe, March1, Text(<<"P","a","g","i">>)>>,
      <<JohnDoe, March2, Text(<<"O","f","f">>)>>,
      <<JohnDoe, March2, Text(<<" ","O","f","f"," ">>)>>,
      <<Jane, March1, Text(<<"L","I","B","U","R">>)>> }

SummaryRekapRows ==
    { <<JohnDoe, March1, Text(<<"0","0",":","0","0",":","3","0">>)>>,
      <<JohnDoe, March2, Text(<<"0","0",":","0","0",":","3","0">>)>>,
      <<JohnDoe, March1, Num(3600)>>,
      <<JohnDoe, March2, Num(0)>> }

\* the shifts Pagi, Off, Siang, Libur, Malam of one employee on five days
FiveShifts ==
    DataFrame(AttendanceCols,
              << <<JohnDoe, March1, Text(<<"P","a","g","i">>)>>,
                 <<JohnDoe, March2, Text(<<"O","f","f">>)>>,
                 <<JohnDoe, Text(<<"0","3","/","0","3","/","2","0","2","4">>), Text(<<"S","i","a","n","g">>)>>,
                 <<JohnDoe, Text(<<"0","4","/","0","3","/","2","0","2","4">>), Text(<<"L","i","b","u","r">>)>>,
                 <<JohnDoe, Text(<<"0","5","/","0","3","/","2","0","2","4">>), Text(<<"M","a","l","a","m">>)>> >>)

SummaryInputs ==
    { [att |-> DataFrame(AttendanceCols, a), rek |-> DataFrame(RekapCols, r)] :
        a \in SeqsUpTo(SummaryAttendanceRows, MaxSumAttRows),
        r \in SeqsUpTo(SummaryRekapRows, MaxSumRekRows) }
    \cup { [att |-> FiveShifts,
            rek |-> DataFrame(RekapCols, << <<JohnDoe, March1, Num(3600)>> >>)] }

NextSummary ==
    \/ UploadFiles(SummaryInputs)
    \/ ToggleShowProcessingSteps
    \/ ProcessOvertimeData
    \/ CreateSummaryTable

SpecSummary == Init /\ [][NextSummary]_vars

-----------------------------------------------------------------------------
(* Direct calls of convert_to_hours, hours_to_hhmm and find_column *)

MaxClockHours == 2
MaxHalfMinutes == 60
MaxCols == 2

\* the clock texts h:mm, hh:mm, with and without seconds, and with the
\* second colon alone
ClockTexts ==
    UNION { { hh \o <<":">> \o Format02d(m),
              hh \o <<":">> \o Format02d(m) \o <<":">>,
              hh \o <<":">> \o Format02d(m) \o <<":">> \o Format02d(0),
              hh \o <<":">> \o Format02d(m) \o <<":">> \o Format02d(30) } :
            hh \in UNION { {NatToDigits(h), Format02d(h)} : h \in 0..MaxClockHours },
            m \in {0, 5, 30, 59} }

OtherTexts ==
    { <<>>, <<"a","b","c">>, <<"m","o","n","d","a","y">>, <<"1"," ","d","a","y">>, <<"2"," ","d","a","y","s">>, <<"1"," ","D","a","y">>, <<"2",".","5">>, <<"-","0",".","5">>,
      <<"7">>, <<" ","0","2",":","3","0"," ">>, <<"1",":","3","0",":","1","5",":">>, <<"1",":",":","3","0">>, <<":","3","0">>, <<"1",".","5",".","2">>, <<"1",":","5">>,
      <<"0","2",".","3","0">>, <<"2","h","3","0">>, HugeClock }

ConvertInputs ==
    {NaN}
    \cup { Num(s) : s \in {-1800, 0, 30, 3600, 9000} }
    \cup { TimeDelta(s) : s \in {0, 30, 5400, 90000} }
    \cup { TimeOfDay(h, m, s) : h \in {0, 1, 23}, m \in {0, 30}, s \in {0, 30} }
    \cup { Text(t) : t \in ClockTexts \cup OtherTexts }

HhmmInputs ==
    {NaN}
    \cup { Num(30 * k) : k \in (-MaxHalfMinutes)..MaxHalfMinutes }
    \cup { Num(s) : s \in {-45, -1, 1, 59, 61, 3599, 5400, 7199, 9000, 35999, 360000, 362520} }

HeaderPool ==
    { <<"E","m","p","l","o","y","e","e"," ","N","a","m","e">>, <<"e","m","p","l","o","y","e","e","_","n","a","m","e">>, <<"E","M","P","L","O","Y","E","E","N","A","M","E">>, <<"N","a","m","a">>, <<"N","a","m","e">>,
      <<"E","m","p","l","o","y","e","e"," ","N","a","m","e"," ","I","D">>, <<"D","a","t","e">>, <<"T","g","l",".">>, <<"U","p","d","a","t","e">>, <<"D","u","r","a","t","i","o","n">>,
      <<"L","a","m","a"," ","W","a","k","t","u">>, <<"S","h","i","f","t">> }

FindInputs ==
    { [df |-> DataFrame(h, rows), possible_names |-> names] :
        h \in SeqsUpTo(HeaderPool, MaxCols),
        rows \in { <<>>, << <<NaN, NaN>> >> },
        names \in {EmployeeAliases, DateAliases, DurationAliases} }

CallConvertToHours ==
    /\ fn = "none"
    /\ \E v \in ConvertInputs :
        /\ arg' = v
        /\ ret' = convert_to_hours(v)
    /\ fn' = "convert_to_hours"
    /\ UNCHANGED <<show_process_area, uploaded_overtime, uploaded_rekap, pc, overtime_df,
                   rekap_df, overtime_merged, error, summary_df>>

CallHoursToHhmm ==
    /\ fn = "none"
    /\ \E v \in HhmmInputs :
        /\ arg' = v
        /\ ret' = Text(hours_to_hhmm(v))
    /\ fn' = "hours_to_hhmm"
    /\ UNCHANGED <<show_process_area, uploaded_overtime, uploaded_rekap, pc, overtime_df,
                   rekap_df, overtime_merged, error, summary_df>>

CallFindColumn ==
    /\ fn = "none"
    /\ \E v \in FindInputs :
        /\ arg' = v
        /\ ret' = find_column(v.df, v.possible_names)
    /\ fn' = "find_column"
    /\ UNCHANGED <<show_process_area, uploaded_overtime, uploaded_rekap, pc, overtime_df,
                   rekap_df, overtime_merged, error, summary_df>>

NextFn ==
    \/ CallConvertToHours
    \/ CallHoursToHhmm
    \/ CallFindColumn

SpecFn == Init /\ [][NextFn]_vars


-----------------------------------------------------------------------------
(* Properties of the join (process_overtime_data), checked under Spec *)

\* the headers of the uploaded tables of Spec, as the run renames them
KeyEmployee == <<"e","m","p","l","o","y","e","e","n","a","m","e">>
KeyDate == <<"d","a","t","e">>
KeyShift == <<"s","h","i","f","t">>

\* the run returned its three tables
Joined == pc \in {"processed", "done"}

\* the rows of the returned overtime table whose key cells are those of row r
\* of the enriched table
SameKeyRows(r) ==
    {j \in 1..Len(rekap_df.rows) :
        /\ Cell(rekap_df, j, KeyEmployee) = Cell(overtime_merged, r, KeyEmployee)
        /\ Cell(rekap_df, j, KeyDate) = Cell(overtime_merged, r, KeyDate)}

\* C1: when the required columns resolve, the enriched table has exactly one
\* row per row of the uploaded attendance table, in the attendance order
\* (row i carries the shift of attendance row i), whatever the number of
\* overtime rows that share a key or have no attendance counterpart.
C1_OneRowPerAttendanceRow ==
    Joined =>
        /\ Len(overtime_merged.rows) = Len(uploaded_overtime.rows)
        /\ \A i \in 1..Len(overtime_merged.rows) :
              Cell(overtime_merged, i, KeyShift) = uploaded_overtime.rows[i][3]

\* two attendance rows, the first with two overtime rows on its key and the
\* second with none, and a third overtime row (Bob) without attendance row
C1_Witness ==
    /\ Joined
    /\ Len(uploaded_overtime.rows) = 2
    /\ Len(uploaded_rekap.rows) = 3
    /\ Cardinality(SameKeyRows(1)) = 2
    /\ SameKeyRows(2) = {}
    /\ uploaded_rekap.rows[3][1] = Bob
    /\ Len(overtime_merged.rows) = 2

\* the key of the specification: the name trimmed, lower-cased and rid of
\* every character that is not a lower-case letter, a digit or white space,
\* and the calendar date of the cell
KeyOf(name, date) ==
    <<IF IsNa(name) THEN <<>>
      ELSE SelectSeq(StrLower(StrStrip(name.s)),
                     LAMBDA c : IsLower(c) \/ IsDigit(c) \/ IsSpace(c)),
      parse_dd_mm_yyyy(date)>>

\* the uploaded overtime rows that have the key of uploaded attendance row i
OvertimeRowsFor(i) ==
    {j \in 1..Len(uploaded_rekap.rows) :
        /\ KeyOf(uploaded_rekap.rows[j][1], uploaded_rekap.rows[j][2])
             = KeyOf(uploaded_overtime.rows[i][1], uploaded_overtime.rows[i][2])
        /\ parse_dd_mm_yyyy(uploaded_rekap.rows[j][2]) # NaT}

\* C2: every attendance row has RKP_PIC_HOURS and RKP_PIC equal to the decimal
\* hours and the HH:MM text of the duration of an overtime row with the same
\* (normalized employee name, calendar date) key, or 0.0 and "00:00" when no
\* overtime row has that key.
C2_EnrichedByKey ==
    Joined =>
        \A i \in 1..Len(uploaded_overtime.rows) :
            IF OvertimeRowsFor(i) = {}
            THEN /\ Cell(overtime_merged, i, COL_RKP_PIC_HOURS) = Num(0)
                 /\ Cell(overtime_merged, i, COL_RKP_PIC) = ZeroClock
            ELSE \E j \in OvertimeRowsFor(i) :
                    /\ Cell(overtime_merged, i, COL_RKP_PIC_HOURS)
                         = Cell(rekap_df, j, COL_DURATION_HOURS)
                    /\ Cell(overtime_merged, i, COL_RKP_PIC)
                         = Cell(rekap_df, j, COL_DURATION_HHMM)

\* C3: when several overtime rows have the key of an attendance row, the row
\* takes the duration (hours and HH:MM text) of the first of them in source
\* order; later rows add nothing.
C3_FirstMatchWins ==
    Joined =>
        \A r \in 1..Len(overtime_merged.rows) :
            SameKeyRows(r) # {} =>
                LET first == CHOOSE j \in SameKeyRows(r) : \A k \in SameKeyRows(r) : j <= k
                IN  /\ Cell(overtime_merged, r, COL_RKP_PIC_HOURS)
                         = Cell(rekap_df, first, COL_DURATION_HOURS)
                    /\ Cell(overtime_merged, r, COL_RKP_PIC)
                         = Cell(rekap_df, first, COL_DURATION_HHMM)

\* an attendance row with overtime rows of 1.0 and then 2.0 hours on its key:
\* the row shows 1.0 hour and "01:00", not 2.0 and not 3.0
C3_Witness ==
    /\ Joined
    /\ Len(overtime_merged.rows) >= 1
    /\ SameKeyRows(1) = {1, 2}
    /\ Cell(rekap_df, 1, COL_DURATION_HOURS) = Num(3600)
    /\ Cell(rekap_df, 2, COL_DURATION_HOURS) = Num(7200)
    /\ Cell(overtime_merged, 1, COL_RKP_PIC_HOURS) = Num(3600)
    /\ Cell(overtime_merged, 1, COL_RKP_PIC) = Text(<<"0","1",":","0","0">>)

-----------------------------------------------------------------------------
(* Properties of convert_to_hours, hours_to_hhmm and find_column, checked   *)
(* under SpecFn                                                             *)

\* a text of the form H:MM or H:MM:SS: two or three runs of digits with a
\* colon between them
IsClockForm(s) ==
    LET p == SplitOn(s, ":")
    IN  Len(p) \in {2, 3} /\ \A i \in 1..Len(p) : IsAllDigits(p[i])

\* the seconds of a text of the form H:MM or H:MM:SS
ClockFormSeconds(s) ==
    LET p == SplitOn(s, ":")
    IN  3600 * DigitsToInt(p[1]) + 60 * DigitsToInt(p[2])
        + (IF Len(p) = 3 THEN DigitsToInt(p[3]) ELSE 0)

\* an input that is none of a number, a time-span, a time-of-day, a clock
\* string, a day-unit duration string or a float literal
Unparseable(v) ==
    \/ v.k = "nan"
    \/ /\ v.k = "text"
       /\ ClockMatch(StrStrip(v.s)) = <<>>
       /\ DayUnitSeconds(StrStrip(v.s)) < 0
       /\ ~FloatLiteral(StrStrip(v.s))[1]

\* C4: convert_to_hours returns a number for every input and never raises,
\* and returns 0.0 for every input that is none of a number, a time-span, a
\* time-of-day, a clock string, a day-unit string or a float literal.
C4_Total ==
    fn = "convert_to_hours" =>
        /\ ret.raised = "none"
        /\ Unparseable(arg) => ret.secs = 0

\* C5: convert_to_hours returns the value of a number, the total seconds /
\* 3600 of a time-span, hour + minute/60 + second/3600 of a time-of-day and
\* H + MM/60 + SS/3600 of a text of the form H:MM or H:MM:SS, and gives the
\* clock arithmetic to no text of another form.
C5_ClockFormsOnly ==
    (fn = "convert_to_hours" /\ ret.raised = "none") =>
        /\ arg.k \in {"num", "timedelta"} => ret.secs = arg.secs
        /\ arg.k = "time" => ret.secs = 3600 * arg.h + 60 * arg.m + arg.s
        /\ arg.k = "text" =>
              IF IsClockForm(StrStrip(arg.s))
              THEN ret.secs = ClockFormSeconds(StrStrip(arg.s))
              ELSE ret.via # "clock"

\* the text is HH:MM for the whole minutes total: two runs of digits, the
\* hours of at least two digits without further padding, the minutes of two
\* digits and below 60
IsClockOf(text, total) ==
    LET p == SplitOn(text, ":")
    IN  /\ Len(p) = 2
        /\ IsAllDigits(p[1]) /\ IsAllDigits(p[2])
        /\ Len(p[1]) >= 2 /\ (Len(p[1]) = 2 \/ p[1][1] # "0")
        /\ Len(p[2]) = 2
        /\ DigitsToInt(p[2]) < 60
        /\ 60 * DigitsToInt(p[1]) + DigitsToInt(p[2]) = total

\* C6 as stated: for every number of hours the text is the zero-padded HH:MM
\* of floor(hours * 60) whole minutes, and "00:00" for zero or missing input.
C6_FloorOfEveryInput ==
    fn = "hours_to_hhmm" =>
        IF IsNa(arg) \/ arg.secs = 0 THEN ret = ZeroClock
        ELSE \/ arg.secs > 0 /\ IsClockOf(ret.s, arg.secs \div 60)
             \/ arg.secs < 0 /\ ret.s = Format02d((arg.secs \div 60) \div 60) \o <<":">>
                                          \o Format02d((arg.secs \div 60) % 60)

\* C6, amended: for hours >= 0 the text is the zero-padded HH:MM of
\* floor(hours * 60) whole minutes, "00:00" for zero or missing input; for
\* hours < 0 the whole minutes are int(hours * 60), rounded toward zero
\* (-45 seconds give "00:00", -0.5 hours give "-1:30").
C6_TruncatedMinutes ==
    fn = "hours_to_hhmm" =>
        /\ (IsNa(arg) \/ arg.secs = 0) => ret = ZeroClock
        /\ (~IsNa(arg) /\ arg.secs > 0) => IsClockOf(ret.s, arg.secs \div 60)
        /\ (~IsNa(arg) /\ arg.secs < 0) =>
              LET total == -((-arg.secs) \div 60)
              IN  ret.s = IF total = 0 THEN ZeroClock.s
                          ELSE Format02d(total \div 60) \o <<":">> \o Format02d(total % 60)
        /\ arg = Num(5400) => ret = Text(<<"0","1",":","3","0">>)
        /\ arg = Num(-45) => ret = ZeroClock
        /\ arg = Num(-1800) => ret = Text(<<"-","1",":","3","0">>)

\* hours_to_hhmm(1.5) returned "01:30"
C6_Witness ==
    /\ fn = "hours_to_hhmm"
    /\ arg = Num(5400)
    /\ ret = Text(<<"0","1",":","3","0">>)

\* a header or an alias lower-cased and rid of every character that is not a
\* letter or a digit
Normalized(h) == SelectSeq(StrLower(h), LAMBDA c : IsLower(c) \/ IsDigit(c))

\* the columns of the table whose normalized header equals a normalized alias
MatchingColumns(df, possible_names) ==
    {i \in 1..Len(df.cols) :
        \E a \in 1..Len(possible_names) :
            Normalized(df.cols[i]) = Normalized(possible_names[a])}

\* the normalized header of the first matching column, or not-found
FirstMatch(df, possible_names) ==
    LET hits == MatchingColumns(df, possible_names)
    IN  IF hits = {} THEN None
        ELSE Text(Normalized(df.cols[CHOOSE i \in hits : \A j \in hits : i <= j]))

\* C7 as stated: for every table find_column returns the first header, in
\* column order, whose normalized form equals a normalized alias of the
\* field, and not-found when no header does.
C7_FirstExactMatch ==
    fn = "find_column" => ret = FirstMatch(arg.df, arg.possible_names)

\* C7, amended: for a table with at least one row find_column returns the
\* normalized form of the first header, in column order, whose normalized
\* form equals (not merely contains) a normalized alias of the field, and
\* not-found when no header does; for a table without rows it returns
\* not-found whatever the headers.
C7_FirstExactMatchOfFilledTable ==
    fn = "find_column" =>
        IF Len(arg.df.rows) = 0 THEN ret = None
        ELSE ret = FirstMatch(arg.df, arg.possible_names)

\* a table with a row and the headers "Employee Name ID", "employee_name":
\* the second resolves EmployeeName, the first only contains an alias
C7_Witness ==
    /\ fn = "find_column"
    /\ Len(arg.df.rows) = 1
    /\ arg.df.cols = <<<<"E","m","p","l","o","y","e","e"," ","N","a","m","e"," ","I","D">>, <<"e","m","p","l","o","y","e","e","_","n","a","m","e">>>>
    /\ arg.possible_names = EmployeeAliases
    /\ ret = Text(<<"e","m","p","l","o","y","e","e","n","a","m","e">>)

-----------------------------------------------------------------------------
(* Property of the required columns, checked under SpecColumns *)

\* the field cannot be resolved in the table: no header has the normalized
\* form of one of its aliases, or the table has no row to read
Unresolved(df, possible_names) ==
    Len(df.rows) = 0 \/ MatchingColumns(df, possible_names) = {}

\* the required fields that cannot be resolved, each with its table
MissingFields ==
    {f \in {<<"Employee Name", "overtime">>, <<"Employee Name", "rekap">>,
            <<"Date", "overtime">>, <<"Date", "rekap">>, <<"Duration", "rekap">>} :
        Unresolved(IF f[2] = "overtime" THEN uploaded_overtime ELSE uploaded_rekap,
                   IF f[1] = "Employee Name" THEN EmployeeAliases
                   ELSE IF f[1] = "Date" THEN DateAliases ELSE DurationAliases)}

\* the call of process_overtime_data of this run is over
Called == pc \in {"failed", "raised", "processed", "done"}

\* C8: when EmployeeName or Date cannot be resolved in either table, or
\* Duration in the overtime table, the run fails as a whole: the error names
\* a field that is missing, none of the three tables is returned, and no
\* summary is computed.
C8_MissingFieldFailsBatch ==
    (Called /\ MissingFields # {}) =>
        /\ pc = "failed"
        /\ <<error.field, error.file>> \in MissingFields
        /\ overtime_df = None
        /\ rekap_df = None
        /\ overtime_merged = None
        /\ summary_df = <<>>

\* the attendance table resolves its fields and the overtime table has the
\* header "Overtime" in place of a duration header: the run failed on Duration
C8_Witness ==
    /\ pc = "failed"
    /\ uploaded_overtime.cols = AttendanceCols
    /\ Len(uploaded_overtime.rows) = 1
    /\ uploaded_rekap.cols[3] = <<"O","v","e","r","t","i","m","e">>
    /\ MissingFields = {<<"Duration", "rekap">>}
    /\ error = MissingColumn("Duration", "rekap")
    /\ overtime_merged = None

-----------------------------------------------------------------------------
(* Properties of create_summary_table, checked under SpecSummary *)

NonWorkTokens ==
    { <<"o","f","f">>, <<"l","i","b","u","r">>, <<"l","e","a","v","e">>, <<"c","u","t","i">>, <<"h","a","r","i"," ","l","i","b","u","r">>, <<"i","s","t","i","r","a","h","a","t">>, <<"k","o","s","o","n","g">>, <<>> }

\* a shift value that is non-empty and, lower-cased and trimmed, is not one
\* of the non-work tokens
IsWorkedShift(c) ==
    /\ ~IsNa(c)
    /\ StrLower(StrStrip(c.s)) \notin NonWorkTokens

\* the rows of the enriched table in the group of summary row k
GroupRows(k) ==
    {r \in 1..Len(overtime_merged.rows) :
        StrTitle(Cell(overtime_merged, r, KeyEmployee).s) = summary_df[k].EmployeeName}

\* C9: the D/Work of an employee is the number of the employee's rows whose
\* shift is non-empty and, after lower-casing and trimming, is none of off,
\* libur, leave, cuti, "hari libur", istirahat, kosong; so " Off " is not a
\* worked day.
C9_WorkDaysTrimmed ==
    pc = "done" =>
        \A k \in 1..Len(summary_df) :
            summary_df[k].DWork =
                Cardinality({r \in GroupRows(k) :
                                IsWorkedShift(Cell(overtime_merged, r, KeyShift))})

\* C10: the overtime total of an employee is the sum, at full precision, of
\* RKP_PIC_HOURS over the employee's enriched rows, converted to HH:MM once
\* after the summation; so two rows of 30 seconds total "00:01".
C10_FullPrecisionTotal ==
    pc = "done" =>
        \A k \in 1..Len(summary_df) :
            summary_df[k].RKPPIC =
                hours_to_hhmm(Num(SumSeq(Tuple(
                    [r \in 1..Len(overtime_merged.rows) |->
                        IF r \in GroupRows(k)
                        THEN Cell(overtime_merged, r, COL_RKP_PIC_HOURS).secs
                        ELSE 0]))))

-----------------------------------------------------------------------------
(* Properties of the summary groups, checked under Spec *)

\* the normalized employee of a name cell: trimmed, lower-cased and rid of
\* every character that is not a lower-case letter, a digit or white space
NormalizedEmployee(c) == KeyOf(c, NaN)[1]

\* the distinct normalized employees of the enriched table, in order of
\* first appearance
EmployeesInOrder ==
    Unique(Tuple([r \in 1..Len(overtime_merged.rows) |->
                     NormalizedEmployee(Cell(overtime_merged, r, KeyEmployee))]))

\* C11: the summary has exactly one row per distinct normalized employee of
\* the enriched table, in order of first appearance, numbered 1..N in that
\* order, and every enriched row is in the group of exactly one summary row.
C11_OneRowPerEmployee ==
    pc = "done" =>
        /\ Len(summary_df) = Len(EmployeesInOrder)
        /\ \A k \in 1..Len(summary_df) :
              /\ summary_df[k].No = k
              /\ summary_df[k].EmployeeName = StrTitle(EmployeesInOrder[k])
        /\ \A r \in 1..Len(overtime_merged.rows) :
              Cardinality({k \in 1..Len(summary_df) :
                  summary_df[k].EmployeeName =
                      StrTitle(NormalizedEmployee(Cell(overtime_merged, r, KeyEmployee)))}) = 1

-----------------------------------------------------------------------------
(* Uploads with missing and unparseable keys *)

MaxDateAttRows == 2
MaxDateRekRows == 1

\* attendance rows whose date is impossible, no date at all, missing, or in
\* ISO form, and a row whose employee is missing
DateAttendanceRows ==
    { <<JohnDoe, March1, Text(<<"P","a","g","i">>)>>,
      <<JohnDoe, Text(<<"3","1","/","0","2","/","2","0","2","4">>), Text(<<"P","a","g","i">>)>>,
      <<JohnDoe, Text(<<"b","e","s","o","k">>), Text(<<"S","i","a","n","g">>)>>,
      <<JohnDoe, NaN, Text(<<"S","i","a","n","g">>)>>,
      <<NaN, March1, Text(<<"M","a","l","a","m">>)>>,
      <<Jane, Text(<<"2","0","2","4","-","0","3","-","0","1">>), Text(<<"P","a","g","i">>)>> }

DateRekapRows ==
    { <<JohnDoe, March1, Num(3600)>>,
      <<JohnDoe, Text(<<"b","e","s","o","k">>), Num(3600)>> }

DateInputs ==
    { [att |-> DataFrame(AttendanceCols, a), rek |-> DataFrame(RekapCols, r)] :
        a \in SeqsUpTo(DateAttendanceRows, MaxDateAttRows),
        r \in SeqsUpTo(DateRekapRows, MaxDateRekRows) }

NextDates ==
    \/ UploadFiles(DateInputs)
    \/ ToggleShowProcessingSteps
    \/ ProcessOvertimeData
    \/ CreateSummaryTable

SpecDates == Init /\ [][NextDates]_vars

-----------------------------------------------------------------------------
(* Property of the rows with a missing key, checked under SpecDates *)

\* the key of an uploaded row is missing: no employee, or a date that is
\* missing or fails every parsing attempt
KeyMissing(row) == IsNa(row[1]) \/ parse_dd_mm_yyyy(row[2]) = NaT

\* C12: a date that fails every parsing attempt becomes missing without
\* raising, and an attendance row whose employee or date is missing is
\* dropped: the enriched table holds exactly the attendance rows with a key,
\* and no row of a summary group comes from a row without one.
C12_MissingKeyRowsDropped ==
    /\ Called => pc # "raised"
    /\ Joined =>
          /\ Len(overtime_merged.rows)
                = Cardinality({i \in 1..Len(uploaded_overtime.rows) :
                                  ~KeyMissing(uploaded_overtime.rows[i])})
          /\ \A r \in 1..Len(overtime_merged.rows) :
                /\ ~IsNa(Cell(overtime_merged, r, KeyEmployee))
                /\ ~IsNa(Cell(overtime_merged, r, KeyDate))
    /\ pc = "done" =>
          \A k \in 1..Len(summary_df) :
              \E i \in 1..Len(uploaded_overtime.rows) :
                  /\ ~KeyMissing(uploaded_overtime.rows[i])
                  /\ summary_df[k].EmployeeName
                        = StrTitle(NormalizedEmployee(uploaded_overtime.rows[i][1]))
-----------------------------------------------------------------------------
(* Uploads whose headers are the aliases of the specification's table *)

TableEmployeeAliases ==
    { <<"e","m","p","l","o","y","e","e","n","a","m","e">>, <<"e","m","p","l","o","y","e","e">>, <<"e","m","p","n","a","m","e">>, <<"n","a","m","e">>, <<"n","a","m","a">>, <<"n","a","m","a","k","a","r","y","a","w","a","n">>, <<"s","t","a","f","f","n","a","m","e">> }
TableDateAliases ==
    { <<"d","a","t","e">>, <<"t","a","n","g","g","a","l">>, <<"w","o","r","k","d","a","t","e">>, <<"d","a","t","e","s">>, <<"p","e","r","i","o","d","e">>, <<"d","a","y">>, <<"t","g","l">> }
TableDurationAliases ==
    { <<"d","u","r","a","t","i","o","n">>, <<"d","u","r","a","s","i">>, <<"l","a","m","a">>, <<"t","o","t","a","l","h","o","u","r","s">>, <<"h","o","u","r","s">>, <<"j","a","m">>, <<"o","v","e","r","t","i","m","e","h","o","u","r","s">>, <<"l","a","m","a","w","a","k","t","u">> }

\* one-row tables with one header replaced by an alias
AliasAttendanceTables ==
    { DataFrame(<<n, <<"D","a","t","e">>, <<"S","h","i","f","t">>>>, << <<JohnDoe, March1, Text(<<"P","a","g","i">>)>> >>) :
        n \in TableEmployeeAliases }
    \cup { DataFrame(<<<<"E","m","p","l","o","y","e","e"," ","N","a","m","e">>, d, <<"S","h","i","f","t">>>>, << <<JohnDoe, March1, Text(<<"P","a","g","i">>)>> >>) :
        d \in TableDateAliases }

AliasRekapTables ==
    { DataFrame(<<n, <<"D","a","t","e">>, <<"D","u","r","a","t","i","o","n">>>>, << <<JohnDoe, March1, Num(3600)>> >>) :
        n \in TableEmployeeAliases }
    \cup { DataFrame(<<<<"E","m","p","l","o","y","e","e"," ","N","a","m","e">>, d, <<"D","u","r","a","t","i","o","n">>>>, << <<JohnDoe, March1, Num(3600)>> >>) :
        d \in TableDateAliases }
    \cup { DataFrame(<<<<"E","m","p","l","o","y","e","e"," ","N","a","m","e">>, <<"D","a","t","e">>, u>>, << <<JohnDoe, March1, Num(3600)>> >>) :
        u \in TableDurationAliases }

AliasInputs == { [att |-> a, rek |-> r] : a \in AliasAttendanceTables, r \in AliasRekapTables }

NextAliases ==
    \/ UploadFiles(AliasInputs)
    \/ ToggleShowProcessingSteps
    \/ ProcessOvertimeData
    \/ CreateSummaryTable

SpecAliases == Init /\ [][NextAliases]_vars

-----------------------------------------------------------------------------
(* Property of the aliases, checked under SpecAliases *)

\* C13 as stated: no header of the alias table causes a missing-column
\* failure; every run on such tables returns its tables.
C13_EveryTableAliasResolves ==
    Called => (pc \in {"processed", "done"} /\ error = NoError)

\* the headers that resolve a field, in normalized form
ResolvingEmployee == { <<"e","m","p","l","o","y","e","e","n","a","m","e">>, <<"e","m","p","l","o","y","e","e">>, <<"n","a","m","a","k","a","r","y","a","w","a","n">>, <<"n","a","m","e">>, <<"n","a","m","a">> }
ResolvingDate == { <<"d","a","t","e">>, <<"t","a","n","g","g","a","l">>, <<"t","g","l">> }
ResolvingDuration == { <<"d","u","r","a","t","i","o","n">>, <<"d","u","r","a","s","i">>, <<"l","a","m","a","w","a","k","t","u">> }

\* the required fields whose header in the uploaded tables resolves nothing
AliasFailures ==
    {f \in {<<"Employee Name", "overtime">>, <<"Employee Name", "rekap">>,
            <<"Date", "overtime">>, <<"Date", "rekap">>, <<"Duration", "rekap">>} :
        LET df == IF f[2] = "overtime" THEN uploaded_overtime ELSE uploaded_rekap
        IN  IF f[1] = "Employee Name" THEN Normalized(df.cols[1]) \notin ResolvingEmployee
            ELSE IF f[1] = "Date" THEN Normalized(df.cols[2]) \notin ResolvingDate
            ELSE Normalized(df.cols[3]) \notin ResolvingDuration}

\* C13, amended: the name headers employeename, employee, namakaryawan, name
\* and nama, the date headers date, tanggal and tgl and the duration headers
\* duration, durasi and lamawaktu resolve their field; the other headers of
\* the alias table (empname, staffname; workdate, dates, periode, day; lama,
\* totalhours, hours, jam, overtimehours) resolve nothing and the run fails
\* with the missing-column error of that field.
C13_CodeAliasesResolve ==
    Called =>
        IF AliasFailures = {}
        THEN pc \in {"processed", "done"} /\ error = NoError
        ELSE pc = "failed" /\ <<error.field, error.file>> \in AliasFailures

\* a run with the headers "namakaryawan" and "lamawaktu" returned its tables
C13_Witness ==
    /\ pc = "done"
    /\ uploaded_overtime.cols[1] = <<"n","a","m","a","k","a","r","y","a","w","a","n">>
    /\ uploaded_rekap.cols[3] = <<"l","a","m","a","w","a","k","t","u">>
    /\ error = NoError
    /\ Len(summary_df) = 1

-----------------------------------------------------------------------------
(* Properties of the returned tables and of the toggle, checked under Spec *)

DerivedColumns == {COL_RKP_PIC, COL_RKP_PIC_HOURS, COL_DURATION_HOURS, COL_DURATION_HHMM}

\* C14: the "original" attendance and overtime tables that a run returns
\* hold the uploaded cell values and none of the derived columns, and the
\* enriched table is another table than the original attendance table.
C14_OriginalsAsUploaded ==
    Joined =>
        /\ overtime_df.rows = uploaded_overtime.rows
        /\ rekap_df.rows = uploaded_rekap.rows
        /\ Range(overtime_df.cols) \cap DerivedColumns = {}
        /\ Range(rekap_df.cols) \cap DerivedColumns = {}
        /\ overtime_merged # overtime_df

\* the run of process_overtime_data on the same uploads with the toggle in
\* its other position
OtherToggleRun ==
    process_overtime_data(uploaded_overtime, uploaded_rekap, ~show_process_area)

\* the RKP_PIC and RKP_PIC_HOURS values of an enriched table, row by row
RkpColumns(merged) ==
    Tuple([r \in 1..Len(merged.rows) |->
              <<Cell(merged, r, COL_RKP_PIC), Cell(merged, r, COL_RKP_PIC_HOURS)>>])

\* C15: for the same two uploaded tables, the run with the toggle on and the
\* run with the toggle off give every attendance row the same RKP_PIC and
\* RKP_PIC_HOURS and give the same summary rows.
C15_ToggleIndependent ==
    /\ Joined =>
          /\ OtherToggleRun.overtime_merged # None
          /\ RkpColumns(overtime_merged) = RkpColumns(OtherToggleRun.overtime_merged)
    /\ pc = "done" =>
          summary_df = create_summary_table(OtherToggleRun.overtime_merged)

====
